---- MODULE Spec2Model ----
(***************************************************************************)
(* The doppler_service_account_identity resource of the Doppler Terraform  *)
(* provider: the four lifecycle handlers, the encoder                      *)
(* toServiceAccountIdentity and the decoder                                *)
(* updateServiceAccountIdentityState, acting on one schema.ResourceData d. *)
(***************************************************************************)
EXTENDS Integers, Sequences, FiniteSets, TLC

VARIABLES
    d,        \* the schema.ResourceData the handlers read and write
    pending,  \* the handler the front end has prepared d for
    desired,  \* the claims of the configuration the front end was last given
    assigned, \* the slug in the authority's last answer for the object ("": none)
    op,       \* the last operation that ran
    d0,       \* d at the entry of the last handler
    call,     \* the authority call the last handler made (fn "none": no call)
    err,      \* the error of that call: "nil", "notfound", "other"
    resp,     \* the entity that call returned
    diags     \* the diagnostics the last operation returned

vars == <<d, pending, desired, assigned, op, d0, call, err, resp, diags>>

\* ---------------------------------------------------------------- bounds

MaxVals == 2

ValuePool == <<"A", "B", "C", "D">>
Values == {ValuePool[i] : i \in 1..MaxVals}
Keys == {"aud", "sub"}
Names == {"n1", "n2"}
Ttls == {0, 600}
Slugs == {"s1", "s2"}
Parents == {"sa1"}
Urls == {"https://issuer"}

\* ------------------------------------------------------ schema (lines 17-91)

ClaimsMinItems == 2
ValuesMinItems == 1
ClaimsTypeDefault == "exact"

\* One element of the "claims" set: a key and a set of values.
ClaimRules == [key : Keys, values : SUBSET Values]

\* The desired configurations the front end may be given.  claims_type ""
\* stands for an omitted attribute.
Desired ==
    [name : Names, ttl_seconds : Ttls, discovery_url : Urls,
     claims_type : {"", "wildcard"},
     claims : {S \in SUBSET ClaimRules : Cardinality(S) = ClaimsMinItems}]

\* Mutant: the values of a claim have no MinItems.
resourceServiceAccountIdentityConfigOidcClaimsNoMin(x) == <<>>

\* The schema's validation of a desired configuration: the diagnostics of
\* the MinItems constraints.
resourceServiceAccountIdentityConfigOidcClaims(x) ==
    IF \E c \in x.claims : Cardinality(c.values) < ValuesMinItems
    THEN <<"config_oidc.0.claims.values: at least 1 item required">>
    ELSE <<>>

resourceServiceAccountIdentityConfigOidc(x) ==
    IF Cardinality(x.claims) < ClaimsMinItems
    THEN <<"config_oidc.0.claims: at least 2 items required">>
    ELSE resourceServiceAccountIdentityConfigOidcClaims(x)

\* The config_oidc list (MinItems 1, MaxItems 1) the front end hands over,
\* with the default of claims_type applied.
ConfigOidcOf(x) ==
    << [discovery_url |-> x.discovery_url,
        claims_type   |-> IF x.claims_type = "" THEN ClaimsTypeDefault
                          ELSE x.claims_type,
        claims        |-> x.claims] >>

\* ------------------------------------------------------------ wire entity

NoConfigOidc == [DiscoveryUrl |-> "", ClaimsType |-> "", Claims |-> <<>>]
NoEntity ==
    [Slug |-> "", Name |-> "", TtlSeconds |-> 0, Method |-> "",
     ConfigOidc |-> NoConfigOidc]
NoCall == [fn |-> "none", serviceAccount |-> "", slug |-> "", payload |-> NoEntity]

EmptyData ==
    [id |-> "", service_account_slug |-> "", slug |-> "", name |-> "",
     ttl_seconds |-> 0, config_oidc |-> <<>>]

\* --------------------------------------------------------------- helpers

HasError(dg) == dg # <<>>

\* (*schema.Set).List(): the elements of a set as a list.  The order is that
\* of the elements' hash codes; every order is admitted.
List(S) ==
    {s \in [1..Cardinality(S) -> S] : \A i, j \in 1..Cardinality(S) : i # j => s[i] # s[j]}

\* One List() of the values of every claim of a claims set.
ValueLists(claims) ==
    {vl \in [claims -> UNION {List(c.values) : c \in claims}] :
        \A c \in claims : vl[c] \in List(c.values)}

\* m[k] = v on a Go map.
MapAssign(m, k, v) ==
    [x \in (DOMAIN m) \cup {k} |-> IF x = k THEN v ELSE m[x]]

\* ------------------------------------------------- encoder (lines 166-194)

\* The loop of lines 178-185 over the list ccs of claims, vl[c] being the
\* List() of the values of claim c.
RECURSIVE oidcConfigClaims(_, _, _)
oidcConfigClaims(ccs, vl, m) ==
    IF ccs = <<>> THEN m
    ELSE LET c == Head(ccs)
             claimValues == vl[c]
         IN  oidcConfigClaims(Tail(ccs), vl, MapAssign(m, c.key, claimValues))

\* Mutant: claimValues is made once, before the loop, so every claim is
\* given the values of the claims before it as well.
RECURSIVE oidcConfigClaimsShared(_, _, _, _)
oidcConfigClaimsShared(ccs, vl, m, claimValues) ==
    IF ccs = <<>> THEN m
    ELSE LET c == Head(ccs)
             appended == claimValues \o vl[c]
         IN  oidcConfigClaimsShared(Tail(ccs), vl, MapAssign(m, c.key, appended), appended)

toServiceAccountIdentitySharedValues(dd, dg, ccs, vl) ==
    LET id == [Slug |-> dd.id, Name |-> dd.name, TtlSeconds |-> dd.ttl_seconds,
               Method |-> "", ConfigOidc |-> NoConfigOidc]
    IN  IF dd.config_oidc # <<>>
        THEN LET oidcConfig == dd.config_oidc[1]
             IN  [id |-> [id EXCEPT
                            !.Method = "oidc",
                            !.ConfigOidc =
                               [DiscoveryUrl |-> oidcConfig.discovery_url,
                                ClaimsType   |-> oidcConfig.claims_type,
                                Claims       |-> oidcConfigClaimsShared(ccs, vl, <<>>, <<>>)]],
                  diags |-> dg]
        ELSE [id |-> id, diags |-> dg]

\* Mutant: the request never carries the ID as its slug.
toServiceAccountIdentityNoSlug(dd, dg, ccs, vl) ==
    LET id == [Slug |-> "", Name |-> dd.name, TtlSeconds |-> dd.ttl_seconds,
               Method |-> "", ConfigOidc |-> NoConfigOidc]
    IN  IF dd.config_oidc # <<>>
        THEN LET oidcConfig == dd.config_oidc[1]
             IN  [id |-> [id EXCEPT
                            !.Method = "oidc",
                            !.ConfigOidc =
                               [DiscoveryUrl |-> oidcConfig.discovery_url,
                                ClaimsType   |-> oidcConfig.claims_type,
                                Claims       |-> oidcConfigClaims(ccs, vl, <<>>)]],
                  diags |-> dg]
        ELSE [id |-> id, diags |-> dg]

toServiceAccountIdentity(dd, dg, ccs, vl) ==
    LET id == [Slug |-> dd.id, Name |-> dd.name, TtlSeconds |-> dd.ttl_seconds,
               Method |-> "", ConfigOidc |-> NoConfigOidc]
    IN  IF dd.config_oidc # <<>>
        THEN LET oidcConfig == dd.config_oidc[1]
             IN  [id |-> [id EXCEPT
                            !.Method = "oidc",
                            !.ConfigOidc =
                               [DiscoveryUrl |-> oidcConfig.discovery_url,
                                ClaimsType   |-> oidcConfig.claims_type,
                                Claims       |-> oidcConfigClaims(ccs, vl, <<>>)]],
                  diags |-> dg]
        ELSE [id |-> id, diags |-> dg]

\* ------------------------------------------------- decoder (lines 196-246)

\* Lines 215-227: the claims set built from the map of the response.
claimSet(Claims) ==
    {[key |-> k, values |-> {Claims[k][i] : i \in 1..Len(Claims[k])}] : k \in DOMAIN Claims}

\* Mutant: SetId is called in the oidc case only.
updateServiceAccountIdentityStateIdInCase(dd, serviceAccountSlug, id, dg) ==
    LET d1 == [dd EXCEPT !.service_account_slug = serviceAccountSlug,
                         !.slug = id.Slug,
                         !.name = id.Name,
                         !.ttl_seconds = id.TtlSeconds]
    IN  IF id.Method = "oidc"
        THEN [d |-> [d1 EXCEPT
                       !.config_oidc =
                          << [discovery_url |-> id.ConfigOidc.DiscoveryUrl,
                              claims_type   |-> id.ConfigOidc.ClaimsType,
                              claims        |-> claimSet(id.ConfigOidc.Claims)] >>,
                       !.id = id.Slug],
              diags |-> dg]
        ELSE [d |-> d1, diags |-> Append(dg, "Unknown auth method type")]

updateServiceAccountIdentityState(dd, serviceAccountSlug, id, dg) ==
    LET d1 == [dd EXCEPT !.service_account_slug = serviceAccountSlug,
                         !.slug = id.Slug,
                         !.name = id.Name,
                         !.ttl_seconds = id.TtlSeconds]
    IN  IF id.Method = "oidc"
        THEN [d |-> [d1 EXCEPT
                       !.config_oidc =
                          << [discovery_url |-> id.ConfigOidc.DiscoveryUrl,
                              claims_type   |-> id.ConfigOidc.ClaimsType,
                              claims        |-> claimSet(id.ConfigOidc.Claims)] >>,
                       !.id = id.Slug],
              diags |-> dg]
        ELSE [d |-> [d1 EXCEPT !.id = id.Slug],
              diags |-> Append(dg, "Unknown auth method type")]

\* handleNotFoundError(err, d): a not-found error clears the ID and is no
\* failure; any other error is returned.
handleNotFoundError(e, dd) ==
    IF e = "notfound"
    THEN [d |-> [dd EXCEPT !.id = ""], diags |-> <<>>]
    ELSE [d |-> dd, diags |-> <<e>>]

\* -------------------------------------------------------------- authority

Errs == {"nil", "notfound", "other"}
Methods == {"oidc", "mystery"}

\* The entities the authority may answer with, given the entity base it was
\* sent or holds: any slug, name, ttl and method, the claims_type of base or
\* none.
Responses(base) ==
    {[Slug |-> s, Name |-> n, TtlSeconds |-> t, Method |-> m,
      ConfigOidc |-> [base.ConfigOidc EXCEPT !.ClaimsType = ct]] :
        s \in Slugs, n \in Names, t \in Ttls, m \in Methods,
        ct \in {"", base.ConfigOidc.ClaimsType}}

\* The claims of d, none when config_oidc is not set.
ClaimsOf(dd) == IF dd.config_oidc = <<>> THEN {} ELSE dd.config_oidc[1].claims

\* The front end holds an object: d has an ID.
Tracked == d.id # ""

\* No handler is prepared, running or just returned: the front end may plan
\* or start the next operation.
Settled == op = "none"

\* --------------------------------------------------------------- handlers
\* Each handler as a function of d, of the lists List() yields, and of the
\* authority's answer (e, r): the error and the entity of the one call.

Return(dd, dg, c) == [d |-> dd, diags |-> dg, call |-> c]

resourceServiceAccountIdentityCreate(dd, ccs, vl, e, r) ==
    LET serviceAccountSlug == dd.service_account_slug
        enc == toServiceAccountIdentity(dd, <<>>, ccs, vl)
        c == [fn |-> "create", serviceAccount |-> serviceAccountSlug,
              slug |-> "", payload |-> enc.id]
    IN  IF HasError(enc.diags) THEN Return(dd, enc.diags, NoCall)
        ELSE IF e # "nil" THEN Return(dd, Append(enc.diags, e), c)
        ELSE LET u == updateServiceAccountIdentityState(dd, serviceAccountSlug, r, enc.diags)
             IN  Return(u.d, u.diags, c)

\* Mutant: Read returns every error of the call as Create and Update do.
resourceServiceAccountIdentityReadFromErr(dd, e, r) ==
    LET serviceAccount == dd.service_account_slug
        slug == dd.id
        c == [fn |-> "read", serviceAccount |-> serviceAccount,
              slug |-> slug, payload |-> NoEntity]
    IN  IF e # "nil"
        THEN Return(dd, <<e>>, c)
        ELSE LET u == updateServiceAccountIdentityState(dd, serviceAccount, r, <<>>)
             IN  Return(u.d, u.diags, c)

resourceServiceAccountIdentityRead(dd, e, r) ==
    LET serviceAccount == dd.service_account_slug
        slug == dd.id
        c == [fn |-> "read", serviceAccount |-> serviceAccount,
              slug |-> slug, payload |-> NoEntity]
    IN  IF e # "nil"
        THEN LET h == handleNotFoundError(e, dd) IN Return(h.d, h.diags, c)
        ELSE LET u == updateServiceAccountIdentityState(dd, serviceAccount, r, <<>>)
             IN  Return(u.d, u.diags, c)

\* Mutant: Update clears the ID when the call fails.
resourceServiceAccountIdentityUpdateClearsId(dd, ccs, vl, e, r) ==
    LET serviceAccountSlug == dd.service_account_slug
        enc == toServiceAccountIdentity(dd, <<>>, ccs, vl)
        c == [fn |-> "update", serviceAccount |-> serviceAccountSlug,
              slug |-> "", payload |-> enc.id]
    IN  IF HasError(enc.diags) THEN Return(dd, enc.diags, NoCall)
        ELSE IF e # "nil" THEN Return([dd EXCEPT !.id = ""], Append(enc.diags, e), c)
        ELSE LET u == updateServiceAccountIdentityState(dd, serviceAccountSlug, r, enc.diags)
             IN  Return(u.d, u.diags, c)

resourceServiceAccountIdentityUpdate(dd, ccs, vl, e, r) ==
    LET serviceAccountSlug == dd.service_account_slug
        enc == toServiceAccountIdentity(dd, <<>>, ccs, vl)
        c == [fn |-> "update", serviceAccount |-> serviceAccountSlug,
              slug |-> "", payload |-> enc.id]
    IN  IF HasError(enc.diags) THEN Return(dd, enc.diags, NoCall)
        ELSE IF e # "nil" THEN Return(dd, Append(enc.diags, e), c)
        ELSE LET u == updateServiceAccountIdentityState(dd, serviceAccountSlug, r, enc.diags)
             IN  Return(u.d, u.diags, c)

resourceServiceAccountIdentityDelete(dd, e) ==
    LET serviceAccountSlug == dd.service_account_slug
        slug == dd.id
        c == [fn |-> "delete", serviceAccount |-> serviceAccountSlug,
              slug |-> slug, payload |-> NoEntity]
    IN  IF e # "nil" THEN Return(dd, <<e>>, c) ELSE Return(dd, <<>>, c)

\* ---------------------------------------------------------------- actions

\* What every handler leaves behind: its result out, and the answer (e, r)
\* of the authority when a call was made.
Ran(name, out, e, r) ==
    LET answered == out.call.fn # "none" /\ e = "nil"
    IN  /\ d' = out.d
        /\ diags' = out.diags
        /\ call' = out.call
        /\ err' = IF out.call.fn = "none" THEN "nil" ELSE e
        /\ resp' = IF answered THEN r ELSE NoEntity
        /\ assigned' = IF answered
                       THEN (IF name = "delete" THEN "" ELSE r.Slug)
                       ELSE IF name = "read" /\ e = "notfound" THEN ""
                       ELSE assigned
        /\ op' = name
        /\ d0' = d
        /\ pending' = "none"
        /\ desired' = {}

\* The front end was given a desired configuration and the schema rejected
\* it: no handler runs.
Rejected(x, dg) ==
    /\ diags' = dg
    /\ op' = "plan"
    /\ desired' = x.claims
    /\ UNCHANGED <<d, pending, assigned, d0, call, err, resp>>

\* The front end prepares d for the handler next.
Planned(dd, next) ==
    /\ d' = dd
    /\ desired' = ClaimsOf(dd)
    /\ pending' = next
    /\ op' = "plan"
    /\ diags' = <<>>
    /\ d0' = EmptyData
    /\ call' = NoCall
    /\ err' = "nil"
    /\ resp' = NoEntity

\* A plan to create the object under the parent p: every computed attribute
\* and the ID are empty.
PlanCreate(p, x) ==
    /\ Settled
    /\ ~Tracked
    /\ LET dg == resourceServiceAccountIdentityConfigOidc(x)
       IN  IF HasError(dg) THEN Rejected(x, dg)
           ELSE /\ Planned([EmptyData EXCEPT !.service_account_slug = p,
                                             !.name = x.name,
                                             !.ttl_seconds = x.ttl_seconds,
                                             !.config_oidc = ConfigOidcOf(x)],
                           "create")
                /\ assigned' = ""

\* A plan to update the object in place: service_account_slug is ForceNew
\* and slug is Computed, so both and the ID stay; there is a difference to
\* apply.
PlanUpdate(x) ==
    /\ Settled
    /\ Tracked
    /\ LET dg == resourceServiceAccountIdentityConfigOidc(x)
           dd == [d EXCEPT !.name = x.name,
                           !.ttl_seconds = x.ttl_seconds,
                           !.config_oidc = ConfigOidcOf(x)]
       IN  IF HasError(dg) THEN Rejected(x, dg)
           ELSE /\ dd # d
                /\ Planned(dd, "update")
                /\ UNCHANGED assigned

Create ==
    /\ pending = "create"
    /\ \E ccs \in List(ClaimsOf(d)), vl \in ValueLists(ClaimsOf(d)), e \in Errs :
         \E r \in Responses(toServiceAccountIdentity(d, <<>>, ccs, vl).id) :
            Ran("create", resourceServiceAccountIdentityCreate(d, ccs, vl, e, r), e, r)

Update ==
    /\ pending = "update"
    /\ \E ccs \in List(ClaimsOf(d)), vl \in ValueLists(ClaimsOf(d)), e \in Errs :
         \E r \in Responses(toServiceAccountIdentity(d, <<>>, ccs, vl).id) :
            Ran("update", resourceServiceAccountIdentityUpdate(d, ccs, vl, e, r), e, r)

\* The authority answers a read with the object as d holds it, up to the
\* changes Responses admits.
Read ==
    /\ Settled
    /\ Tracked
    /\ LET ccs == CHOOSE l \in List(ClaimsOf(d)) : TRUE
           vl == CHOOSE f \in ValueLists(ClaimsOf(d)) : TRUE
       IN  \E e \in Errs, r \in Responses(toServiceAccountIdentity(d, <<>>, ccs, vl).id) :
              Ran("read", resourceServiceAccountIdentityRead(d, e, r), e, r)

Delete ==
    /\ Settled
    /\ Tracked
    /\ \E e \in Errs :
         Ran("delete", resourceServiceAccountIdentityDelete(d, e), e, NoEntity)

\* The handler has returned, or the plan was rejected, and the front end
\* keeps d as its state for the next operation; it drops the object after a
\* delete that succeeded and when the handler left d without an ID.
Settle ==
    /\ op \in {"create", "read", "update", "delete"} \/ (op = "plan" /\ pending = "none")
    /\ d' = IF (op = "delete" /\ ~HasError(diags)) \/ d.id = "" THEN EmptyData ELSE d
    /\ op' = "none"
    /\ diags' = <<>>
    /\ d0' = EmptyData
    /\ call' = NoCall
    /\ err' = "nil"
    /\ resp' = NoEntity
    /\ desired' = {}
    /\ UNCHANGED <<pending, assigned>>

\* ------------------------------------------------------------------ Init

Init ==
    /\ d = EmptyData
    /\ pending = "none"
    /\ desired = {}
    /\ assigned = ""
    /\ op = "none"
    /\ d0 = EmptyData
    /\ call = NoCall
    /\ err = "nil"
    /\ resp = NoEntity
    /\ diags = <<>>

Next ==
    \/ \E p \in Parents, x \in Desired : PlanCreate(p, x)
    \/ \E x \in Desired : PlanUpdate(x)
    \/ Create
    \/ Read
    \/ Update
    \/ Delete
    \/ Settle

Spec == Init /\ [][Next]_vars

\* ----------------------------------------------------------------- claims

KeysOf(claims) == {c.key : c \in claims}
ValuesOf(claims, k) == UNION {c.values : c \in {c \in claims : c.key = k}}
HasDuplicateKey(claims) == \E a, b \in claims : a # b /\ a.key = b.key
HasEmptyValues(claims) == \E c \in claims : c.values = {}

\* The last handler made its authority call and the call returned no error.
Answered == call.fn # "none" /\ err = "nil"

\* The authority answered with what it was sent, under a slug of its choice.
Echoed ==
    /\ Answered
    /\ resp.Name = call.payload.Name
    /\ resp.TtlSeconds = call.payload.TtlSeconds
    /\ resp.Method = call.payload.Method
    /\ resp.ConfigOidc = call.payload.ConfigOidc

\* C1: when Create or Update encodes a valid desired identity (unique claim
\* keys, non-empty value sets) and the state is decoded from the same entity,
\* the state has the desired name, ttl_seconds, discovery_url and claims_type,
\* the same claim keys and for every key the same set of values, whatever
\* the order List() gave the claims and the values.
C1_RoundTrip ==
    (/\ op \in {"create", "update"}
     /\ Echoed
     /\ ~HasDuplicateKey(ClaimsOf(d0))
     /\ ~HasEmptyValues(ClaimsOf(d0)))
    => /\ d.name = d0.name
       /\ d.ttl_seconds = d0.ttl_seconds
       /\ Len(d.config_oidc) = 1
       /\ d.config_oidc[1].discovery_url = d0.config_oidc[1].discovery_url
       /\ d.config_oidc[1].claims_type = d0.config_oidc[1].claims_type
       /\ KeysOf(ClaimsOf(d)) = KeysOf(ClaimsOf(d0))
       /\ \A k \in KeysOf(ClaimsOf(d0)) :
             ValuesOf(ClaimsOf(d), k) = ValuesOf(ClaimsOf(d0), k)

C1_Witness ==
    /\ op = "update"
    /\ Echoed
    /\ ~HasDuplicateKey(ClaimsOf(d0))
    /\ \E c \in ClaimsOf(d0) : Cardinality(c.values) >= 2
    /\ call.payload.ConfigOidc.ClaimsType = "wildcard"
    /\ resp.Slug # d0.id

\* C2: a Read whose authority call reports not-found returns no error and
\* clears the ID; a Read whose call fails otherwise returns that error and
\* leaves d, the ID included, as it was.
C2_ReadNotFound ==
    /\ (op = "read" /\ err = "notfound")
          => (diags = <<>> /\ d.id = "" /\ d = [d0 EXCEPT !.id = ""])
    /\ (op = "read" /\ err = "other")
          => (diags = <<"other">> /\ d = d0 /\ d.id # "")

C2_Witness == op = "read" /\ err = "notfound" /\ d0.id # "" /\ d.id = ""

\* C3: a Create or Update whose desired claims name a key twice fails and
\* sends nothing to the authority.
C3_DuplicateClaimKey ==
    (op \in {"create", "update"} /\ HasDuplicateKey(ClaimsOf(d0)))
    => (HasError(diags) /\ call.fn = "none")

\* C4: when the authority answers with a method other than oidc the decode
\* fails and leaves slug, name, ttl_seconds, service_account_slug and the ID
\* as they were.
C4_UnknownAuthMethod ==
    (op \in {"create", "read", "update"} /\ Answered /\ resp.Method # "oidc")
    => /\ diags = <<"Unknown auth method type">>
       /\ d.slug = d0.slug
       /\ d.name = d0.name
       /\ d.ttl_seconds = d0.ttl_seconds
       /\ d.service_account_slug = d0.service_account_slug
       /\ d.id = d0.id

\* C5: decoding an oidc answer without claims_type gives the state the
\* claims_type "exact".
C5_ClaimsTypeDefault ==
    (/\ op \in {"create", "read", "update"}
     /\ Answered
     /\ resp.Method = "oidc"
     /\ resp.ConfigOidc.ClaimsType = "")
    => d.config_oidc[1].claims_type = ClaimsTypeDefault

\* C6: a Create or Update whose desired state is invalid (a claim key named
\* twice, a claim without values, no oidc configuration) fails with no
\* authority call and d unchanged.
C6_ValidateBeforeCall ==
    (/\ op \in {"create", "update"}
     /\ \/ HasDuplicateKey(ClaimsOf(d0))
        \/ HasEmptyValues(ClaimsOf(d0))
        \/ d0.config_oidc = <<>>)
    => (call.fn = "none" /\ HasError(diags) /\ d = d0)

\* C7: a Create or Update whose authority call returns an error returns that
\* error and leaves every attribute of d and the ID as they were when the
\* handler was entered; after a failed Create the ID is empty.
C7_AuthorityError ==
    (op \in {"create", "update"} /\ call.fn # "none" /\ err # "nil")
    => /\ diags = <<err>>
       /\ d = d0
       /\ resp = NoEntity
       /\ (op = "create" => d.id = "")

C7_Witness ==
    /\ op = "update"
    /\ call.fn = "update"
    /\ err = "other"
    /\ d.id # ""

\* C8: a desired configuration with a claim that has no values is rejected
\* when it is planned, before any handler runs, and no Create or Update
\* request carries a claim key with an empty list of values.
C8_EmptyValueSet ==
    /\ (op = "plan" /\ HasEmptyValues(desired))
          => /\ diags = <<"config_oidc.0.claims.values: at least 1 item required">>
             /\ pending = "none"
             /\ call = NoCall
    /\ pending # "none" => ~HasEmptyValues(ClaimsOf(d))
    /\ call.fn \in {"create", "update"}
          => \A k \in DOMAIN call.payload.ConfigOidc.Claims :
                 call.payload.ConfigOidc.Claims[k] # <<>>

C8_Witness ==
    /\ op = "plan"
    /\ HasEmptyValues(desired)
    /\ diags = <<"config_oidc.0.claims.values: at least 1 item required">>
    /\ d.id # ""

\* C9: the request of a Create carries an empty slug, and the request of an
\* Update carries the slug of the authority's last answer to a Create, Read
\* or Update of the object.
C9_RequestSlug ==
    /\ []((op = "create" /\ call.fn = "create") => call.payload.Slug = "")
    /\ [][(op' = "update" /\ call'.fn = "update")
            => (assigned # "" /\ call'.payload.Slug = assigned)]_vars

C9_Witness ==
    /\ op = "update"
    /\ call.fn = "update"
    /\ call.payload.Slug = "s2"
    /\ Answered
    /\ resp.Slug = "s1"

\* C10: after a Create, Read or Update whose authority call succeeded, the ID
\* and the slug attribute both equal the slug of the answer, and
\* service_account_slug is the parent slug the call was made with, which
\* Read and Update leave as it was.
C10_HandleIsSlug ==
    (op \in {"create", "read", "update"} /\ Answered)
    => /\ d.id = resp.Slug
       /\ d.slug = resp.Slug
       /\ d.service_account_slug = call.serviceAccount
       /\ d.service_account_slug = d0.service_account_slug

C10_Witness ==
    /\ op = "read"
    /\ Answered
    /\ resp.Slug # d0.id
    /\ resp.Method = "mystery"
    /\ d.id = resp.Slug

====
